---- MODULE Spec2Model ----
(***************************************************************************)
(* smallsh (src/main.c): a small shell.  The module models                 *)
(*   - the pure part: tokenising a line (strtok_r), the "$$" expansion     *)
(*     (stringReplace) and the descriptor builder (processInput);          *)
(*   - the shell as a state machine: the prompt loop of main, execCmd,     *)
(*     the children, and the signal handlers that interrupt the main flow. *)
(* A string is a sequence of one-character strings; a C pointer that may   *)
(* be NULL is NULL (<<>>) or Ptr(x) (<<x>>).                               *)
(***************************************************************************)
EXTENDS Integers, Sequences, FiniteSets, TLC

VARIABLES
    pc,             \* position of the main flow (main / execCmd / clearMessageQueue)
    line,           \* main: the line read by getline, NULL between iterations
    cmdLine,        \* main: the descriptor processInput returned, NULL if none
    stat,           \* main: the last-status holder
    msgQueue,       \* global: the message slots
    queuePosition,  \* global: the append position
    children,       \* global: the job table, 0 is "no job"
    fgMode,         \* global: foreground-only mode
    procs,          \* the children forked so far: pid -> state
    childPid,       \* execCmd: the pid fork returned
    cmqI,           \* clearMessageQueue: the loop index i
    recI,           \* execCmd: the loop index i over the job table
    sigchld,        \* disposition of SIGCHLD: TRUE once handleSIGCHLD is installed
    pending,        \* a SIGCHLD is pending for the shell
    inHandler,      \* handleSIGCHLD is running (the main flow is suspended)
    overrun,        \* pushMessageQueue wrote past msgQueue's storage
    pushed,         \* history: the messages appended, in order
    output,         \* history: the messages clearMessageQueue printed, in order
    killI,          \* exitShell: the loop index i over the job table
    termPid,        \* exitShell: the value of children[i] its test read
    signalled,      \* history: the targets kill(.., SIGTERM) was called with
    sigint,         \* disposition of SIGINT in the shell
    intLine,        \* history: handleSIGINT wrote its line in the shell
    tstpOdd         \* history: an odd number of SIGTSTP was delivered

vars == <<pc, line, cmdLine, stat, msgQueue, queuePosition, children, fgMode,
          procs, childPid, cmqI, recI, sigchld, pending, inHandler, overrun,
          pushed, output, killI, termPid, signalled, sigint, intLine, tstpOdd>>

\* the variables of exitShell, and the ones of SIGINT and SIGTSTP
exitVars == <<killI, termPid, signalled>>
sigVars == <<sigint, intLine, tstpOdd>>

(***************************************************************************)
(* Bounds of the model.                                                    *)
(***************************************************************************)
\* tokens on a line drawn for the descriptor builder
MaxTokens == 4
\* length of a word drawn for the expansion
MaxWordLen == 5
\* spaces in front of a line
MaxLead == 1
\* commands that fork in one run of the shell
MaxProcs == 2
\* commands that fork in one run of the shell that launches only background jobs
MaxJobs == 4
\* entries of args in struct command (513 in the source), scaled down
ARGLENGTH == 3
\* slots of msgQueue (50 in the source), scaled down
QueueSlots == 3
\* slots of children (200 in the source), scaled down
ChildSlots == 2

(***************************************************************************)
(* Program constants.                                                      *)
(***************************************************************************)
LINELENGTH == 2048
\* getpid() of the shell
ShellPid == 42

NULL == <<>>
Ptr(x) == <<x>>
Deref(p) == p[1]

(***************************************************************************)
(* Strings.                                                                *)
(***************************************************************************)
Str1(c) == <<c>>
DevNull == <<"/", "d", "e", "v", "/", "n", "u", "l", "l">>
Digits == <<"0", "1", "2", "3", "4", "5", "6", "7", "8", "9">>

\* snprintf(replaceString, l+1, "%d", pid): the decimal digits of n >= 0
RECURSIVE DecStr(_)
DecStr(n) ==
    IF n < 10 THEN <<Digits[n + 1]>>
    ELSE DecStr(n \div 10) \o <<Digits[(n % 10) + 1]>>

\* the inner copy loop of stringReplace: every character of currentChar
\* passes the test (c != '\n' || c != '\0') and is appended to newWord
RECURSIVE CopyChars(_, _)
CopyChars(newWord, currentChar) ==
    IF currentChar = <<>> THEN newWord
    ELSE CopyChars(
            IF Head(currentChar) # "\n" \/ Head(currentChar) # "0x00"
            THEN Append(newWord, Head(currentChar))
            ELSE newWord,
            Tail(currentChar))

\* the for loop of stringReplace at index i (1-based) with newWord so far
RECURSIVE ReplaceLoopNoSkip(_, _, _)
ReplaceLoopNoSkip(word, i, newWord) ==
    IF i > Len(word) THEN newWord
    ELSE IF word[i] = "$" /\ i + 1 <= Len(word) /\ word[i + 1] = "$"
         THEN ReplaceLoopNoSkip(word, i + 1, CopyChars(newWord, DecStr(ShellPid)))
         ELSE ReplaceLoopNoSkip(word, i + 1, CopyChars(newWord, <<word[i]>>))

RECURSIVE ReplaceLoop(_, _, _)
ReplaceLoop(word, i, newWord) ==
    IF i > Len(word) THEN newWord
    ELSE IF word[i] = "$" /\ i + 1 <= Len(word) /\ word[i + 1] = "$"
         THEN ReplaceLoop(word, i + 2, CopyChars(newWord, DecStr(ShellPid)))
         ELSE ReplaceLoop(word, i + 1, CopyChars(newWord, <<word[i]>>))

\* faulty variant: the loop does not step over the second '$' of a marker
stringReplaceNoSkip(word) == ReplaceLoopNoSkip(word, 1, <<>>)

stringReplace(word) == ReplaceLoop(word, 1, <<>>)

(***************************************************************************)
(* strtok_r(line, " \n", &saveptr): the tokens of a line.                  *)
(***************************************************************************)
Delims == {" ", "\n"}

RECURSIVE SkipDelims(_)
SkipDelims(s) ==
    IF s # <<>> /\ Head(s) \in Delims THEN SkipDelims(Tail(s)) ELSE s

RECURSIVE TakeToken(_)
TakeToken(s) ==
    IF s = <<>> \/ Head(s) \in Delims THEN <<>>
    ELSE <<Head(s)>> \o TakeToken(Tail(s))

RECURSIVE Tokenize(_)
Tokenize(s) ==
    LET t == SkipDelims(s)
    IN  IF t = <<>> THEN <<>>
        ELSE LET tok == TakeToken(t)
             IN  <<tok>> \o Tokenize(SubSeq(t, Len(tok) + 1, Len(t)))

(***************************************************************************)
(* processInput.  args is the NULL-terminated prefix of the args array:    *)
(* args[1] here is args[0] in C, and argPosition = Len(args).              *)
(***************************************************************************)
NewCmd == [args |-> <<>>, inputFile |-> NULL, outputFile |-> NULL,
           isBackground |-> FALSE, argPosition |-> 1, argsOverrun |-> FALSE]

\* the else branch: the token is an argument.  args[ARGLENGTH] lies past the
\* array of ARGLENGTH entries, where struct command has inputFile: the store
\* lands in inputFile, or the build, which may take the two for distinct
\* objects, lets processInput go on with the inputFile it had (lands)
AddArg(c, token, lands) ==
    IF c.argPosition <= ARGLENGTH
    THEN IF c.argPosition < ARGLENGTH
         THEN [c EXCEPT !.args = Append(@, stringReplace(token)),
                        !.argPosition = @ + 1]
         ELSE [c EXCEPT !.argsOverrun = TRUE, !.argPosition = @ + 1,
                        !.inputFile = IF lands THEN Ptr(stringReplace(token))
                                      ELSE @]
    ELSE c

\* faulty variant: an earlier '&' is not corrected
ResetBackgroundNever(c) == c

\* "Correct for if a single ampersand is found before end of input"
ResetBackground(c) ==
    IF c.isBackground THEN [c EXCEPT !.isBackground = FALSE] ELSE c

\* the while loop over the tokens, at token k
RECURSIVE TokenLoop(_, _, _, _)
TokenLoop(toks, k, c0, lands) ==
    IF k > Len(toks) THEN c0
    ELSE
        LET c == ResetBackground(c0)
            token == toks[k]
        IN  IF c.args = <<>>
            THEN TokenLoop(toks, k + 1,
                    [c EXCEPT !.args = <<stringReplace(token)>>], lands)
            ELSE IF token = Str1("<")
            THEN TokenLoop(toks, k + 2,
                    IF k + 1 <= Len(toks)
                    THEN [c EXCEPT !.inputFile = Ptr(stringReplace(toks[k + 1]))]
                    ELSE c, lands)
            ELSE IF token = Str1(">")
            THEN TokenLoop(toks, k + 2,
                    IF k + 1 <= Len(toks)
                    THEN [c EXCEPT !.outputFile = Ptr(stringReplace(toks[k + 1]))]
                    ELSE c, lands)
            ELSE IF token = Str1("&")
            THEN TokenLoop(toks, k + 1, [c EXCEPT !.isBackground = TRUE], lands)
            ELSE TokenLoop(toks, k + 1, AddArg(c, token, lands), lands)

\* faulty variant: the foreground-only check is left out
VerifyFgModeOff(c, fg) == c

\* "Verify foreground-only mode"
VerifyFgMode(c, fg) ==
    IF fg THEN [c EXCEPT !.isBackground = FALSE] ELSE c

\* "Default the input and output file paths for background"
DefaultPaths(c) ==
    IF c.isBackground
    THEN [c EXCEPT !.inputFile = IF @ = NULL THEN Ptr(DevNull) ELSE @,
                   !.outputFile = IF @ = NULL THEN Ptr(DevNull) ELSE @]
    ELSE c

\* the struct the caller gets
Descriptor(c) ==
    [args |-> c.args, inputFile |-> c.inputFile, outputFile |-> c.outputFile,
     isBackground |-> c.isBackground, argsOverrun |-> c.argsOverrun]

\* processInput(line) with the global fgMode = fg: NULL or Ptr(descriptor)
processInput(ln, fg, lands) ==
    LET toks == Tokenize(ln)
    IN  IF toks = <<>> THEN NULL
        ELSE Ptr(Descriptor(DefaultPaths(VerifyFgMode(
                 TokenLoop(toks, 1, NewCmd, lands), fg))))

\* faulty variant: a comment is not recognised
isValidLineNoComment(firstChar) == firstChar # "\n"

\* isValidLine(firstChar)
isValidLine(firstChar) ==
    IF firstChar = "#" THEN FALSE
    ELSE IF firstChar = "\n" THEN FALSE
    ELSE TRUE

(***************************************************************************)
(* The state after construction: the globals are zero-initialised, main    *)
(* sets stat to "exit value 0" and has forked nothing.                     *)
(***************************************************************************)
Pids == 1..MaxJobs
NoProc ==
    [state |-> "none", bg |-> FALSE, status |-> <<"exit value", 0>>,
     sigint |-> "SIG_IGN"]

ShellStart ==
    /\ stat = <<"exit value", 0>>
    /\ msgQueue = [i \in 0..(QueueSlots - 1) |-> NULL]
    /\ queuePosition = 0
    /\ children = [i \in 0..(ChildSlots - 1) |-> 0]
    /\ procs = [p \in Pids |-> NoProc]
    /\ childPid = 0
    /\ cmqI = 0
    /\ recI = 0
    /\ sigchld = FALSE
    /\ pending = FALSE
    /\ inHandler = FALSE
    /\ overrun = FALSE
    /\ pushed = <<>>
    /\ output = <<>>
    /\ killI = 0
    /\ termPid = 0
    /\ signalled = {}
    /\ sigint = "SIG_IGN"
    /\ intLine = FALSE

(***************************************************************************)
(* Statuses and messages.                                                  *)
(***************************************************************************)
ExitValue(n) == <<"exit value", n>>
TermSignal(n) == <<"terminated by signal", n>>

\* what a child ends with by itself: exit(1) (as when exec or a redirection
\* fails); the signal that ends a child is SIGINT, see SigintChild
ChildStatuses == {ExitValue(1)}

\* what sprintf makes of an uninitialised childStatus
GarbageStatuses == ChildStatuses \cup {TermSignal(2), TermSignal(127)}

\* sprintf(stat, ...) of execCmd from the status waitpid stored
StatOf(status) == status

\* sprintf(message, "background pid %d is done: ...") of handleSIGCHLD
DoneMessage(p, status) == <<"background pid", p, "is done", status>>

(***************************************************************************)
(* The lines the user types at the prompt.                                 *)
(***************************************************************************)
ExitName == <<"e", "x", "i", "t">>
StatusName == <<"s", "t", "a", "t", "u", "s">>
CdName == <<"c", "d">>

ShellLines ==
    { <<"\n">>,                          \* newline only
      <<" ", "\n">>,                     \* blanks only
      <<"#", "a", "\n">>,                \* comment
      <<" ", "#", "a", "\n">>,           \* '#' after a space
      <<"a", "\n">>,                     \* foreground command
      <<"a", " ", "&", "\n">>,           \* background command
      ExitName \o <<"\n">>,
      StatusName \o <<"\n">>,
      CdName \o <<"\n">> }

(***************************************************************************)
(* The main flow.  It does not move while handleSIGCHLD runs.              *)
(***************************************************************************)
Zombies == {p \in Pids : procs[p].state = "zombie"}
Forked == {p \in Pids : procs[p].state # "none"}

\* clearMessageQueue is called by main at "clear" and by exitShell at
\* "exit_clear"
Alive == pc \notin {"exited", "killed", "interrupted"}

\* clearMessageQueue, loop body at i: the test and the write
ClearTest ==
    /\ pc \in {"clear", "exit_clear"} /\ ~inHandler
    /\ cmqI < QueueSlots
    /\ IF msgQueue[cmqI] # NULL
       THEN /\ output' = Append(output, Deref(msgQueue[cmqI]))
            /\ pc' = IF pc = "clear" THEN "clear_free" ELSE "exit_clear_free"
            /\ UNCHANGED cmqI
       ELSE /\ cmqI' = cmqI + 1
            /\ UNCHANGED <<pc, output>>
    /\ UNCHANGED <<line, cmdLine, stat, msgQueue, queuePosition, children, fgMode,
                   procs, childPid, recI, sigchld, pending, inHandler, overrun,
                   pushed,
                   exitVars, sigVars>>

\* clearMessageQueue, loop body at i: free(msgQueue[i]); msgQueue[i] = NULL
ClearFree ==
    /\ pc \in {"clear_free", "exit_clear_free"} /\ ~inHandler
    /\ msgQueue' = [msgQueue EXCEPT ![cmqI] = NULL]
    /\ cmqI' = cmqI + 1
    /\ pc' = IF pc = "clear_free" THEN "clear" ELSE "exit_clear"
    /\ UNCHANGED <<line, cmdLine, stat, queuePosition, children, fgMode, procs,
                   childPid, recI, sigchld, pending, inHandler, overrun, pushed,
                   output,
                   exitVars, sigVars>>

\* clearMessageQueue after the loop: queuePosition = 0; main prints the
\* prompt, exitShell goes on to its loop over the job table
ClearDone ==
    /\ pc \in {"clear", "exit_clear"} /\ ~inHandler
    /\ cmqI = QueueSlots
    /\ queuePosition' = 0
    /\ cmqI' = 0
    /\ pc' = IF pc = "clear" THEN "getline" ELSE "exit_test"
    /\ UNCHANGED <<line, cmdLine, stat, msgQueue, children, fgMode, procs,
                   childPid, recI, sigchld, pending, inHandler, overrun, pushed,
                   output,
                   exitVars, sigVars>>

\* the test of main on the line read
Accepted(l) ==
    Len(l) # 0 /\ Len(l) < LINELENGTH /\ isValidLine(l[1])

\* main: getline, the test of the line and processInput
ReadLine(l) ==
    /\ pc = "getline" /\ ~inHandler
    /\ line' = Ptr(l)
    /\ \E lands \in BOOLEAN :
          cmdLine' = IF Accepted(l) THEN processInput(l, fgMode, lands) ELSE NULL
    /\ pc' = IF cmdLine' # NULL THEN "dispatch" ELSE "freeline"
    /\ UNCHANGED <<stat, msgQueue, queuePosition, children, fgMode, procs,
                   childPid, cmqI, recI, sigchld, pending, inHandler, overrun,
                   pushed, output,
                   exitVars, sigVars>>

Program == Deref(cmdLine).args[1]
IsBuiltin == Program \in {ExitName, StatusName, CdName}

\* main: the status built-in prints stat
Status ==
    /\ pc = "dispatch" /\ ~inHandler
    /\ Program = StatusName
    /\ pc' = "freeline"
    /\ UNCHANGED <<line, cmdLine, stat, msgQueue, queuePosition, children, fgMode,
                   procs, childPid, cmqI, recI, sigchld, pending, inHandler,
                   overrun, pushed, output,
                   exitVars, sigVars>>

\* main: the cd built-in changes the directory
Cd ==
    /\ pc = "dispatch" /\ ~inHandler
    /\ Program = CdName
    /\ pc' = "freeline"
    /\ UNCHANGED <<line, cmdLine, stat, msgQueue, queuePosition, children, fgMode,
                   procs, childPid, cmqI, recI, sigchld, pending, inHandler,
                   overrun, pushed, output,
                   exitVars, sigVars>>

\* main: the exit built-in frees cmdLine, stat and line and calls exitShell,
\* which starts with clearMessageQueue
Exit ==
    /\ pc = "dispatch" /\ ~inHandler
    /\ Program = ExitName
    /\ cmdLine' = NULL
    /\ line' = NULL
    /\ killI' = 0
    /\ pc' = "exit_clear"
    /\ UNCHANGED <<stat, msgQueue, queuePosition, children, fgMode, procs,
                   childPid, cmqI, recI, sigchld, pending, inHandler, overrun,
                   pushed, output, termPid, signalled, sigVars>>

\* exitShell, loop over the job table at i: the test children[i] != 0
ExitTest ==
    /\ pc = "exit_test" /\ ~inHandler
    /\ killI < ChildSlots
    /\ termPid' = children[killI]
    /\ IF children[killI] # 0
       THEN pc' = "exit_kill" /\ UNCHANGED killI
       ELSE killI' = killI + 1 /\ UNCHANGED pc
    /\ UNCHANGED <<line, cmdLine, stat, msgQueue, queuePosition, children, fgMode,
                   procs, childPid, cmqI, recI, sigchld, pending, inHandler,
                   overrun, pushed, output, signalled, sigVars>>

\* kill(target, SIGTERM): target 0 is the process group of the caller, the
\* shell included, and SIGTERM has its default disposition in the shell
KillsShell(target) == target = 0

\* exitShell, loop body at i: kill(children[i], SIGTERM); children[i] = 0.
\* children is not volatile: the argument of kill is the value the test read
\* or the value of the slot now, as the build chooses.
ExitKill ==
    /\ pc = "exit_kill" /\ ~inHandler
    /\ \E target \in {termPid, children[killI]} :
          /\ signalled' = signalled \cup {target}
          /\ IF KillsShell(target)
             THEN pc' = "killed" /\ UNCHANGED <<children, killI>>
             ELSE /\ children' = [children EXCEPT ![killI] = 0]
                  /\ killI' = killI + 1
                  /\ pc' = "exit_test"
    /\ UNCHANGED <<line, cmdLine, stat, msgQueue, queuePosition, fgMode, procs,
                   childPid, cmqI, recI, sigchld, pending, inHandler, overrun,
                   pushed, output, termPid, sigVars>>

\* exitShell after the loop: _exit(3)
ExitShell ==
    /\ pc = "exit_test" /\ ~inHandler
    /\ killI = ChildSlots
    /\ pc' = "exited"
    /\ UNCHANGED <<line, cmdLine, stat, msgQueue, queuePosition, children, fgMode,
                   procs, childPid, cmqI, recI, sigchld, pending, inHandler,
                   overrun, pushed, output, exitVars, sigVars>>

\* main: any other program goes to execCmd
CallExecCmd ==
    /\ pc = "dispatch" /\ ~inHandler
    /\ ~IsBuiltin
    /\ pc' = "fork"
    /\ childPid' = 0
    /\ UNCHANGED <<line, cmdLine, stat, msgQueue, queuePosition, children, fgMode,
                   procs, cmqI, recI, sigchld, pending, inHandler, overrun, pushed,
                   output,
                   exitVars, sigVars>>

\* execCmd: fork() returns the pid of a new child, the limit-th at most
ForkUpTo(limit) ==
    /\ pc = "fork" /\ ~inHandler
    /\ Cardinality(Forked) < limit
    /\ LET p == Cardinality(Forked) + 1
       IN  /\ childPid' = p
           /\ procs' = [procs EXCEPT ![p] =
                  [state |-> "forked", bg |-> Deref(cmdLine).isBackground,
                   status |-> ExitValue(0), sigint |-> sigint]]
    /\ recI' = 0
    /\ pc' = IF Deref(cmdLine).isBackground THEN "record" ELSE "fgsig"
    /\ UNCHANGED <<line, cmdLine, stat, msgQueue, queuePosition, children, fgMode,
                   cmqI, sigchld, pending, inHandler, overrun, pushed, output,
                   exitVars, sigVars>>

\* faulty variant: the failure of fork() leaves stat as it was
ForkFailSilent ==
    /\ pc = "fork" /\ ~inHandler
    /\ childPid' = -1
    /\ pc' = "freeline"
    /\ UNCHANGED <<line, cmdLine, stat, msgQueue, queuePosition, children, fgMode,
                   procs, cmqI, recI, sigchld, pending, inHandler, overrun,
                   pushed, output, exitVars, sigVars>>

\* execCmd: fork() returns -1
ForkFail ==
    /\ pc = "fork" /\ ~inHandler
    /\ childPid' = -1
    /\ stat' = ExitValue(1)
    /\ pc' = "freeline"
    /\ UNCHANGED <<line, cmdLine, msgQueue, queuePosition, children, fgMode, procs,
                   cmqI, recI, sigchld, pending, inHandler, overrun, pushed,
                   output,
                   exitVars, sigVars>>

\* execCmd, background: one turn of the loop that looks for an empty slot
Record ==
    /\ pc = "record" /\ ~inHandler
    /\ IF recI = ChildSlots
       THEN /\ pc' = "install"
            /\ UNCHANGED <<children, recI>>
       ELSE IF children[recI] = 0
       THEN /\ children' = [children EXCEPT ![recI] = childPid]
            /\ pc' = "install"
            /\ UNCHANGED recI
       ELSE /\ recI' = recI + 1
            /\ UNCHANGED <<children, pc>>
    /\ UNCHANGED <<line, cmdLine, stat, msgQueue, queuePosition, fgMode, procs,
                   childPid, cmqI, sigchld, pending, inHandler, overrun, pushed,
                   output,
                   exitVars, sigVars>>

\* execCmd, background: sigaction(SIGCHLD, handleSIGCHLD)
Install ==
    /\ pc = "install" /\ ~inHandler
    /\ sigchld' = TRUE
    /\ pc' = "freeline"
    /\ UNCHANGED <<line, cmdLine, stat, msgQueue, queuePosition, children, fgMode,
                   procs, childPid, cmqI, recI, pending, inHandler, overrun,
                   pushed, output,
                   exitVars, sigVars>>

\* execCmd, foreground: sigaction(SIGINT, ..) installs handleSIGINT; nothing
\* sets the disposition back afterwards
FgInstall ==
    /\ pc = "fgsig" /\ ~inHandler
    /\ sigint' = "handleSIGINT"
    /\ pc' = "fgwait"
    /\ UNCHANGED <<line, cmdLine, stat, msgQueue, queuePosition, children, fgMode,
                   procs, childPid, cmqI, recI, sigchld, pending, inHandler,
                   overrun, pushed, output, exitVars, intLine, tstpOdd>>

\* faulty variant: the wait does not block (as with WNOHANG)
FgWaitNoHang ==
    /\ pc = "fgwait" /\ ~inHandler
    /\ IF procs[childPid].state = "zombie"
       THEN /\ procs' = [procs EXCEPT ![childPid].state = "reaped"]
            /\ stat' = StatOf(procs[childPid].status)
       ELSE /\ stat' = ExitValue(0)
            /\ UNCHANGED procs
    /\ pc' = "freeline"
    /\ UNCHANGED <<line, cmdLine, msgQueue, queuePosition, children, fgMode,
                   childPid, cmqI, recI, sigchld, pending, inHandler, overrun,
                   pushed, output, exitVars, sigVars>>

\* execCmd, foreground: waitpid(childPid, &childStatus, 0) and the sprintf.
\* It returns once the child has ended; if handleSIGCHLD reaped the child
\* first, waitpid fails and childStatus is read uninitialised.
FgWait ==
    /\ pc = "fgwait" /\ ~inHandler
    /\ procs[childPid].state \in {"zombie", "reaped"}
    /\ IF procs[childPid].state = "zombie"
       THEN /\ procs' = [procs EXCEPT ![childPid].state = "reaped"]
            /\ stat' = StatOf(procs[childPid].status)
       ELSE /\ stat' \in {StatOf(g) : g \in GarbageStatuses}
            /\ UNCHANGED procs
    /\ pc' = "freeline"
    /\ UNCHANGED <<line, cmdLine, msgQueue, queuePosition, children, fgMode,
                   childPid, cmqI, recI, sigchld, pending, inHandler, overrun,
                   pushed, output,
                   exitVars, sigVars>>

\* main: freeCommand(cmdLine), free(line), and round the loop
EndIteration ==
    /\ pc = "freeline" /\ ~inHandler
    /\ cmdLine' = NULL
    /\ line' = NULL
    /\ pc' = "clear"
    /\ UNCHANGED <<stat, msgQueue, queuePosition, children, fgMode, procs,
                   childPid, cmqI, recI, sigchld, pending, inHandler, overrun,
                   pushed, output,
                   exitVars, sigVars>>

(***************************************************************************)
(* The children and the signals.                                           *)
(***************************************************************************)
\* execCmd, case 0: the disposition of SIGINT the child sets before execvp
ChildDispositionDefault(bg) == "SIG_DFL"   \* faulty variant: never ignored
ChildDisposition(bg) == IF bg THEN "SIG_IGN" ELSE "SIG_DFL"

\* execCmd, case 0: the child, which started with the dispositions of the
\* shell, sets its own and calls execvp
ChildSetup(p) ==
    /\ Alive
    /\ procs[p].state = "forked"
    /\ procs' = [procs EXCEPT ![p].state = "running",
                              ![p].sigint = ChildDisposition(procs[p].bg)]
    /\ UNCHANGED <<pc, line, cmdLine, stat, msgQueue, queuePosition, children,
                   fgMode, childPid, cmqI, recI, sigchld, pending, inHandler,
                   overrun, pushed, output, exitVars, sigVars>>

\* SIGINT is delivered to child p: it ends the child if the disposition is the
\* default one; handleSIGINT, inherited until the child sets its own, returns
SigintChild(p) ==
    /\ Alive
    /\ procs[p].state \in {"forked", "running"}
    /\ procs[p].sigint = "SIG_DFL"
    /\ procs' = [procs EXCEPT ![p].state = "zombie", ![p].status = TermSignal(2)]
    /\ pending' = IF sigchld THEN TRUE ELSE pending
    /\ UNCHANGED <<pc, line, cmdLine, stat, msgQueue, queuePosition, children,
                   fgMode, childPid, cmqI, recI, sigchld, inHandler, overrun,
                   pushed, output, exitVars, sigVars>>

\* SIGINT is delivered to the shell: ignored, or handleSIGINT writes its line,
\* or (default disposition) the shell is terminated
SigintShell ==
    /\ Alive
    /\ sigint # "SIG_IGN"
    /\ IF sigint = "handleSIGINT"
       THEN intLine' = TRUE /\ UNCHANGED pc
       ELSE pc' = "interrupted" /\ UNCHANGED intLine
    /\ UNCHANGED <<line, cmdLine, stat, msgQueue, queuePosition, children, fgMode,
                   procs, childPid, cmqI, recI, sigchld, pending, inHandler,
                   overrun, pushed, output, exitVars, sigint, tstpOdd>>

\* a child ends: it becomes a zombie and the kernel raises SIGCHLD, which is
\* discarded while the disposition is the default one
ChildExit(p, status) ==
    /\ Alive
    /\ procs[p].state = "running"
    /\ procs' = [procs EXCEPT ![p].state = "zombie", ![p].status = status]
    /\ pending' = IF sigchld THEN TRUE ELSE pending
    /\ UNCHANGED <<pc, line, cmdLine, stat, msgQueue, queuePosition, children,
                   fgMode, childPid, cmqI, recI, sigchld, inHandler, overrun,
                   pushed, output,
                   exitVars, sigVars>>

\* the pending SIGCHLD is delivered: handleSIGCHLD starts
HandlerEnter ==
    /\ Alive
    /\ sigchld /\ pending /\ ~inHandler
    /\ inHandler' = TRUE
    /\ pending' = FALSE
    /\ UNCHANGED <<pc, line, cmdLine, stat, msgQueue, queuePosition, children,
                   fgMode, procs, childPid, cmqI, recI, sigchld, overrun, pushed,
                   output,
                   exitVars, sigVars>>

\* "Remove child from background queue": the first slot holding the pid
ClearSlot(tbl, p) ==
    IF \E i \in DOMAIN tbl : tbl[i] = p
    THEN LET first == CHOOSE i \in DOMAIN tbl :
                          tbl[i] = p /\ \A j \in DOMAIN tbl : tbl[j] = p => i <= j
         IN  [tbl EXCEPT ![first] = 0]
    ELSE tbl

\* handleSIGCHLD: one turn of the loop, waitpid(-1, WNOHANG) returned p
HandlerReap(p) ==
    /\ inHandler
    /\ procs[p].state = "zombie"
    /\ procs' = [procs EXCEPT ![p].state = "reaped"]
    /\ children' = ClearSlot(children, p)
    \* pushMessageQueue
    /\ IF queuePosition < QueueSlots
       THEN /\ msgQueue' = [msgQueue EXCEPT ![queuePosition] =
                                Ptr(DoneMessage(p, procs[p].status))]
            /\ UNCHANGED overrun
       ELSE /\ overrun' = TRUE
            /\ UNCHANGED msgQueue
    /\ queuePosition' = queuePosition + 1
    /\ pushed' = Append(pushed, DoneMessage(p, procs[p].status))
    /\ UNCHANGED <<pc, line, cmdLine, stat, fgMode, childPid, cmqI, recI, sigchld,
                   pending, inHandler, output,
                   exitVars, sigVars>>

\* handleSIGCHLD: waitpid finds no ended child, the handler returns
HandlerReturn ==
    /\ inHandler
    /\ Zombies = {}
    /\ inHandler' = FALSE
    /\ UNCHANGED <<pc, line, cmdLine, stat, msgQueue, queuePosition, children,
                   fgMode, procs, childPid, cmqI, recI, sigchld, pending, overrun,
                   pushed, output,
                   exitVars, sigVars>>

\* handleSIGTSTP: the new value of fgMode
ToggledEnterOnly(fg) == TRUE   \* faulty variant: the mode is never left
Toggled(fg) == IF fg THEN FALSE ELSE TRUE

\* handleSIGTSTP
HandleSIGTSTP ==
    /\ Alive
    /\ fgMode' = Toggled(fgMode)
    /\ tstpOdd' = ~tstpOdd
    /\ UNCHANGED <<pc, line, cmdLine, stat, msgQueue, queuePosition, children,
                   procs, childPid, cmqI, recI, sigchld, pending, inHandler,
                   overrun, pushed, output, exitVars, sigint, intLine>>

(***************************************************************************)
(* The shell.                                                              *)
(***************************************************************************)
Init ==
    /\ pc = "clear"
    /\ line = NULL
    /\ cmdLine = NULL
    /\ fgMode = FALSE
    /\ tstpOdd = FALSE
    /\ ShellStart

MainStep ==
    \/ ClearTest
    \/ ClearFree
    \/ ClearDone
    \/ \E l \in ShellLines : ReadLine(l)
    \/ Exit
    \/ ExitTest
    \/ ExitKill
    \/ ExitShell
    \/ Status
    \/ Cd
    \/ CallExecCmd
    \/ ForkUpTo(MaxProcs)
    \/ ForkFail
    \/ Record
    \/ Install
    \/ FgInstall
    \/ FgWait
    \/ EndIteration

HandlerStep ==
    \/ HandlerEnter
    \/ \E p \in Pids : HandlerReap(p)
    \/ HandlerReturn

Next ==
    \/ MainStep
    \/ HandlerStep
    \/ \E p \in Pids : ChildSetup(p)
    \/ \E p \in Pids, status \in ChildStatuses : ChildExit(p, status)
    \/ \E p \in Pids : SigintChild(p)
    \/ SigintShell
    \/ HandleSIGTSTP

Spec == Init /\ [][Next]_vars

\* The prompt loop keeps taking its steps and a handler that started goes on
\* to its end; no child is bound to end and no signal is bound to be sent.
FairSpec == Spec /\ WF_vars(MainStep) /\ WF_vars(HandlerStep)

(***************************************************************************)
(* The runs of the shell in which the user launches only background jobs   *)
(* (or types an empty line), every job ends with exit(1), and fork works.  *)
(***************************************************************************)
JobLines == {<<"\n">>, <<"a", " ", "&", "\n">>}

JobsNext ==
    \/ ClearTest
    \/ ClearFree
    \/ ClearDone
    \/ \E l \in JobLines : ReadLine(l)
    \/ CallExecCmd
    \/ ForkUpTo(MaxJobs)
    \/ Record
    \/ Install
    \/ EndIteration
    \/ HandlerStep
    \/ \E p \in Pids : ChildSetup(p)
    \/ \E p \in Pids : ChildExit(p, ExitValue(1))

JobsSpec == Init /\ [][JobsNext]_vars

(***************************************************************************)
(* The descriptor builder as a function of the line and of fgMode:         *)
(* ParseSpec draws a line and the mode, and applies processInput once.     *)
(***************************************************************************)
SeqsUpTo(S, n) == UNION {[1..m -> S] : m \in 0..n}

RECURSIVE Join(_)
Join(toks) ==
    IF toks = <<>> THEN <<>>
    ELSE IF Len(toks) = 1 THEN toks[1]
    ELSE toks[1] \o <<" ">> \o Join(Tail(toks))

Spaces(n) == [i \in 1..n |-> " "]

ParseTokens == {Str1("a"), Str1("&"), Str1("<"), Str1(">"), Str1("#"), <<"$", "$">>}
ExpandChars == {"$", "a"}
ExpandWords == SeqsUpTo(ExpandChars, MaxWordLen) \ {<<>>}

ParseLines ==
    {Spaces(n) \o Join(ts) \o <<"\n">> :
        n \in 0..MaxLead, ts \in SeqsUpTo(ParseTokens, MaxTokens)}

ExpandLines ==
    {Join(pre \o <<w>>) \o <<"\n">> :
        pre \in {<<>>, <<Str1("a")>>, <<Str1("a"), Str1("<")>>, <<Str1("a"), Str1(">")>>},
        w \in ExpandWords}

ParseInit ==
    /\ pc = "parse"
    /\ line \in {Ptr(l) : l \in ParseLines \cup ExpandLines}
    /\ fgMode \in BOOLEAN
    /\ tstpOdd = fgMode
    /\ cmdLine = NULL
    /\ ShellStart

ParseStep ==
    /\ pc = "parse"
    /\ \E lands \in BOOLEAN : cmdLine' = processInput(Deref(line), fgMode, lands)
    /\ pc' = "parsed"
    /\ UNCHANGED <<line, stat, msgQueue, queuePosition, children, fgMode, procs,
                   childPid, cmqI, recI, sigchld, pending, inHandler, overrun,
                   pushed, output,
                   exitVars, sigVars>>

ParseNext == ParseStep

ParseSpec == ParseInit /\ [][ParseNext]_vars

(***************************************************************************)
(* What the claims say about a line, stated on its tokens.                 *)
(***************************************************************************)
Toks == Tokenize(Deref(line))
Parsed == pc = "parsed" /\ cmdLine # NULL
Desc == Deref(cmdLine)
Last(s) == s[Len(s)]
Redirs == {Str1("<"), Str1(">")}

\* token k is the operand a '<' or '>' operator consumes: the token before it
\* is such an operator, and is neither the program nor itself an operand
RECURSIVE IsOperand(_, _)
IsOperand(toks, k) ==
    /\ k >= 3
    /\ toks[k - 1] \in Redirs
    /\ ~IsOperand(toks, k - 1)

IsArgument(toks, k) ==
    /\ k >= 2
    /\ ~IsOperand(toks, k)
    /\ toks[k] \notin Redirs \cup {Str1("&")}

\* every "$$", left to right and non-overlapping, replaced by the pid
RECURSIVE ReplaceAll(_)
ReplaceAll(w) ==
    IF w = <<>> THEN <<>>
    ELSE IF Len(w) >= 2 /\ SubSeq(w, 1, 2) = <<"$", "$">>
         THEN DecStr(ShellPid) \o ReplaceAll(SubSeq(w, 3, Len(w)))
         ELSE <<Head(w)>> \o ReplaceAll(Tail(w))

HasMarker(w) == \E i \in 1..(Len(w) - 1) : w[i] = "$" /\ w[i + 1] = "$"

\* the operand of the last operator op of the line that has one, expanded
OperandsOf(toks, op) == {k \in 1..Len(toks) : IsOperand(toks, k) /\ toks[k - 1] = op}
Max(S) == CHOOSE x \in S : \A y \in S : y <= x
Explicit(toks, op) ==
    IF OperandsOf(toks, op) = {} THEN NULL
    ELSE Ptr(ReplaceAll(toks[Max(OperandsOf(toks, op))]))

\* the argument tokens in order, expanded
RECURSIVE ArgsFrom(_, _)
ArgsFrom(toks, k) ==
    IF k > Len(toks) THEN <<>>
    ELSE (IF IsArgument(toks, k) THEN <<ReplaceAll(toks[k])>> ELSE <<>>)
         \o ArgsFrom(toks, k + 1)

\* the first n entries of s, or s if it has fewer
Take(s, n) == SubSeq(s, 1, IF n < Len(s) THEN n ELSE Len(s))

TrailingAmp(toks) ==
    Len(toks) >= 2 /\ Last(toks) = Str1("&") /\ ~IsOperand(toks, Len(toks))

\* C6 as stated: with foreground-only mode off, background = true exactly
\* when the last token of the line is '&'.
C6_TrailingAmpAsStated ==
    (Parsed /\ ~fgMode) => (Desc.isBackground <=> Last(Toks) = Str1("&"))

\* C6 amended: with foreground-only mode off, background = true exactly when
\* the last token is '&' and that token is neither the first token of the line
\* (the program) nor the operand consumed by a preceding '<' or '>'; an '&'
\* followed by a further token does not set it.
C6_TrailingAmp ==
    (Parsed /\ ~fgMode) => (Desc.isBackground <=> TrailingAmp(Toks))

\* an earlier '&' is followed by further tokens, the last one a standalone '&'
C6_Witness ==
    /\ Parsed /\ ~fgMode
    /\ Len(Toks) >= 3 /\ Toks[2] = Str1("&") /\ TrailingAmp(Toks)
    /\ Desc.isBackground

\* C7: a descriptor built in foreground-only mode has background = false,
\* whatever the tokens, and neither path is defaulted to the null device.
C7_FgModeForcesForeground ==
    (Parsed /\ fgMode) =>
        /\ ~Desc.isBackground
        /\ Explicit(Toks, Str1("<")) = NULL => Desc.inputFile # Ptr(DevNull)
        /\ Desc.outputFile = Explicit(Toks, Str1(">"))

C7_Witness ==
    /\ Parsed /\ fgMode /\ TrailingAmp(Toks)
    /\ ~Desc.isBackground /\ Desc.inputFile = NULL /\ Desc.outputFile = NULL

\* the path of a side from its explicit operand and the background flag
DefaultedPath(explicit, bg) ==
    IF explicit # NULL THEN explicit ELSE IF bg THEN Ptr(DevNull) ELSE NULL

\* C9: with background = true each side is its explicit operand (expanded; the
\* last one given) if there is one and "/dev/null" otherwise, each side on its
\* own; with background = false a side with no explicit operand stays NULL.
C9_BackgroundDefaults ==
    Parsed =>
        /\ Desc.inputFile = DefaultedPath(Explicit(Toks, Str1("<")), Desc.isBackground)
        /\ Desc.outputFile = DefaultedPath(Explicit(Toks, Str1(">")), Desc.isBackground)

\* C10: the program, every argument that args has room for and every
\* redirection operand is stored with each "$$" (left to right,
\* non-overlapping) replaced by the decimal pid and all other characters kept;
\* a token without "$$" is stored unchanged; whatever inputFile holds is a
\* token expanded in this way or the null device.
C10_Expansion ==
    Parsed =>
        /\ Desc.args = Take(<<ReplaceAll(Toks[1])>> \o ArgsFrom(Toks, 2), ARGLENGTH)
        /\ Desc.inputFile \in {NULL, Ptr(DevNull)}
                               \cup {Ptr(ReplaceAll(Toks[k])) : k \in 2..Len(Toks)}
        /\ (Explicit(Toks, Str1("<")) # NULL /\ ~Desc.argsOverrun)
              => Desc.inputFile = Explicit(Toks, Str1("<"))
        /\ Explicit(Toks, Str1(">")) # NULL => Desc.outputFile = Explicit(Toks, Str1(">"))
        /\ ~HasMarker(Toks[1]) => Desc.args[1] = Toks[1]
        /\ \A k \in 2..Len(Toks) :
              (IsOperand(Toks, k) /\ ~HasMarker(Toks[k]) /\ k = Max(OperandsOf(Toks, Toks[k - 1]))
               /\ (Toks[k - 1] = Str1("<") => ~Desc.argsOverrun))
              => (IF Toks[k - 1] = Str1("<") THEN Desc.inputFile ELSE Desc.outputFile)
                 = Ptr(Toks[k])

\* "$$$" is the pid followed by one '$'; "a$$a$" keeps the other characters
C10_Witness ==
    /\ Parsed
    /\ Len(Toks) = 2
    /\ Toks[2] = <<"$", "$", "$">>
    /\ Desc.args = <<Str1("a"), <<"4", "2", "$">>>>

(***************************************************************************)
(* What the claims say about the running shell.                            *)
(***************************************************************************)
BgJobs == {p \in Forked : procs[p].bg}
Ended(p) == procs[p].state \in {"zombie", "reaped"}
AllJobsReaped == BgJobs # {} /\ \A p \in BgJobs : procs[p].state = "reaped"
Launching == pc \in {"fork", "record"}
QueueEmpty == \A i \in DOMAIN msgQueue : msgQueue[i] = NULL
Drained == pc = "getline" /\ ~inHandler /\ QueueEmpty
Printed(p) == {i \in 1..Len(output) : output[i][2] = p}
IsExec == cmdLine # NULL /\ ~IsBuiltin

\* C1: once every background job launched has been reaped (and the launcher
\* is past recording the pid), every job-table slot holds 0.
C1_TableEmptyAfterReap ==
    (AllJobsReaped /\ ~Launching) => \A i \in DOMAIN children : children[i] = 0

\* C2: once every background job has been reaped and the queue is drained,
\* with fewer messages than slots ever appended, what the drains printed is
\* what was appended, in that order, one message per job.
C2_DrainIsFifo ==
    (AllJobsReaped /\ Drained /\ Len(pushed) < QueueSlots) =>
        /\ output = pushed
        /\ \A p \in BgJobs : Cardinality(Printed(p)) = 1

\* C3: the append position never exceeds the slots of msgQueue and no message
\* is written past them.
C3_QueueBounded ==
    queuePosition <= QueueSlots /\ ~overrun

\* C4: after a foreground command whose fork succeeded, last-status is the
\* status that foreground child ended with.
C4_StatusOfForeground ==
    (pc = "freeline" /\ IsExec /\ ~Deref(cmdLine).isBackground /\ childPid > 0) =>
        stat = StatOf(procs[childPid].status)

\* C5: if the prompt loop keeps coming back to the prompt, every background
\* child that has ended eventually has its message printed by a drain.
C5_EveryJobReported ==
    \A p \in Pids :
        ([]<>(pc = "getline")) =>
            [](((procs[p].bg /\ Ended(p)) => <>(Printed(p) # {})))

\* the line is a comment or has nothing on it, as C8 states it: the first
\* byte that is not a space is '#', or the line is only a newline
RECURSIVE SkipSpaces(_)
SkipSpaces(s) == IF s # <<>> /\ Head(s) = " " THEN SkipSpaces(Tail(s)) ELSE s

SkippedAsStated(l) ==
    \/ l = <<"\n">>
    \/ SkipSpaces(l) # <<>> /\ Head(SkipSpaces(l)) = "#"

\* the first byte of the line is '#', or the line is only a newline
SkippedFirstByte(l) ==
    \/ l = <<"\n">>
    \/ Head(l) = "#"

\* on reading such a line main builds no descriptor and changes neither the
\* status nor the job table nor the children, and its next step is the next
\* turn of the loop
SkipsLine(Skipped(_)) ==
    /\ (pc = "getline" /\ pc' # "getline" /\ Skipped(Deref(line'))) =>
          /\ cmdLine' = NULL
          /\ pc' = "freeline"
          /\ UNCHANGED <<stat, children, procs,
                   exitVars, sigVars>>
    /\ (pc = "freeline" /\ pc' # "freeline" /\ Skipped(Deref(line))) =>
          /\ pc' = "clear"
          /\ UNCHANGED <<stat, children, procs,
                   exitVars, sigVars>>

C11_ExitOrder ==
    /\ pc # "killed"
    /\ pc = "exited" => /\ \A i \in DOMAIN children : children[i] = 0
                        /\ signalled \subseteq BgJobs

\* C12: SIGINT never terminates the shell, whose disposition is never the
\* default one, and never terminates a background child: a background child
\* never has the default disposition and runs its program with SIGINT
\* ignored, a foreground child runs its program with the default disposition.
C12_InterruptSpares ==
    /\ pc # "interrupted"
    /\ sigint # "SIG_DFL"
    /\ \A p \in Pids :
          /\ procs[p].bg =>
                procs[p].status # TermSignal(2) /\ procs[p].sigint # "SIG_DFL"
          /\ procs[p].state = "running" =>
                procs[p].sigint = (IF procs[p].bg THEN "SIG_IGN" ELSE "SIG_DFL")

\* SIGINT has ended a foreground child while a background child runs its
\* program and the shell goes on
C12_Witness ==
    /\ Alive
    /\ \E p, q \in Pids :
          /\ procs[p].bg /\ procs[p].state = "running"
          /\ ~procs[q].bg /\ procs[q].status = TermSignal(2)

\* a foreground child of the shell has not ended yet
FgRunning == \E p \in Pids : ~procs[p].bg /\ procs[p].state \in {"forked", "running"}

\* the foreground child the shell waits for was ended by SIGINT
FgInterrupted ==
    /\ pc = "fgwait"
    /\ procs[childPid].state = "zombie" /\ procs[childPid].status = TermSignal(2)

\* C13: the shell writes a "terminated by signal" line of its own only while
\* a foreground child runs or when SIGINT has ended the foreground child it
\* waits for; an interrupt delivered at any other moment writes nothing.
C13_InterruptLine ==
    [][(intLine' # intLine) => (FgRunning \/ FgInterrupted)]_vars

\* C14: foreground-only mode is on exactly after an odd number of SIGTSTP
\* deliveries; a step changes fgMode only if it is a delivery of SIGTSTP,
\* every delivery changes it, and the step that changes it leaves the job
\* table, the queue, last-status and the rest of the shell as they were.
C14_FgModeParity ==
    /\ [](fgMode = tstpOdd)
    /\ [][/\ (tstpOdd' # tstpOdd) <=> (fgMode' # fgMode)
          /\ (fgMode' # fgMode) =>
                UNCHANGED <<pc, line, cmdLine, stat, msgQueue, queuePosition,
                            children, procs, childPid, sigchld, pending,
                            inHandler, sigint, pushed, output>>]_vars

\* the mode is on while a job is in the table and a message is in the queue
C14_Witness ==
    /\ fgMode /\ tstpOdd
    /\ children[0] # 0
    /\ queuePosition > 0

(***************************************************************************)
(* What the claims say about the argument list of a descriptor.            *)
(***************************************************************************)
\* C15: the descriptor holds the program and the first ARGLENGTH - 1
\* arguments, the further ones are dropped; the list keeps a NULL entry within
\* the ARGLENGTH entries of args, nothing is stored past them, and the paths
\* and the background flag are what the line gives without the dropped tokens.
C15_ArgsCapped ==
    Parsed =>
        /\ Desc.args = Take(<<ReplaceAll(Toks[1])>> \o ArgsFrom(Toks, 2), ARGLENGTH)
        /\ Len(Desc.args) < ARGLENGTH
        /\ ~Desc.argsOverrun
        /\ Desc.inputFile = DefaultedPath(Explicit(Toks, Str1("<")), Desc.isBackground)
        /\ Desc.outputFile = DefaultedPath(Explicit(Toks, Str1(">")), Desc.isBackground)
        /\ Desc.isBackground = (TrailingAmp(Toks) /\ ~fgMode)

(***************************************************************************)
(* What the claims say about launching.                                    *)
(***************************************************************************)
EmptySlots(tbl) == {i \in DOMAIN tbl : tbl[i] = 0}
Min(S) == CHOOSE x \in S : \A y \in S : x <= y

\* the step of execCmd that ends its search for a slot
EndsSearch == pc = "record" /\ pc' = "install"

\* C16: when the search of execCmd for a slot ends, the pid is in the lowest
\* empty slot the table had and in no other slot, or the table was full and
\* is left as it was; in both cases the shell goes on to the prompt.
C16_LowestEmptySlot ==
    [][EndsSearch =>
          IF EmptySlots(children) = {}
          THEN children' = children
          ELSE children' = [children EXCEPT ![Min(EmptySlots(children))] = childPid]]_vars

\* C17: the step in which fork() fails sets last-status to "exit value 1",
\* creates no child, leaves the job table and the queue as they were and
\* takes the shell to the end of the iteration, for a foreground command as
\* for a background one.
C17_ForkFailure ==
    [][(pc = "fork" /\ childPid' = -1) =>
          /\ stat' = ExitValue(1)
          /\ pc' = "freeline"
          /\ UNCHANGED <<procs, children, msgQueue, queuePosition, sigchld>>]_vars

\* fork() has failed for a background command while a job is in the table
C17_Witness ==
    /\ pc = "freeline" /\ childPid = -1
    /\ cmdLine # NULL /\ Deref(cmdLine).isBackground
    /\ stat = ExitValue(1)
    /\ children[0] # 0

\* a step that writes the prompt marker ": ": main after clearMessageQueue,
\* and handleSIGTSTP at its end
MainPrompt == pc = "clear" /\ pc' = "getline"
WritesPrompt == MainPrompt \/ tstpOdd' # tstpOdd

\* while a foreground child has not ended the shell is in the foreground
\* branch of execCmd for that child; in the background branch and after it
\* the main flow is never held up by a child
WaitsForForeground ==
    /\ \A p \in Pids :
          (~procs[p].bg /\ procs[p].state \in {"forked", "running"})
          => (pc \in {"fgsig", "fgwait"} /\ childPid = p)
    /\ (pc \in {"record", "install", "freeline"} /\ ~inHandler) => ENABLED MainStep

\* C18 as stated: while a foreground child has not ended, no prompt is
\* written, no line is read and nothing is launched, whatever handlers run.
C18_ForegroundBlocksAsStated ==
    /\ []WaitsForForeground
    /\ [][FgRunning => ~WritesPrompt]_vars

\* C18 amended: while a foreground child has not ended, the main flow stays
\* in the foreground branch of execCmd for that child (it writes no prompt,
\* reads no line and launches nothing), whatever handlers run; the only
\* prompt marker written meanwhile is the one handleSIGTSTP writes.  After a
\* background launch the main flow is never held up by the child.
C18_ForegroundBlocks ==
    /\ []WaitsForForeground
    /\ [][FgRunning => ~MainPrompt]_vars

\* the shell waits for a running foreground child after SIGTSTP and SIGINT
\* were handled and a background job was reaped by handleSIGCHLD
C18_Witness ==
    /\ pc = "fgwait" /\ procs[childPid].state = "running"
    /\ fgMode /\ intLine /\ ~inHandler
    /\ \E q \in Pids : procs[q].bg /\ procs[q].state = "reaped"

(***************************************************************************)
(* What the claims say about the queue and the table under SIGCHLD.        *)
(***************************************************************************)
\* the step in which clearMessageQueue returns
DrainCompletes ==
    pc \in {"clear", "exit_clear"} /\ pc' \in {"getline", "exit_test"}

\* C19: when clearMessageQueue returns, every slot of msgQueue is empty and
\* the append position is 0, also when handleSIGCHLD appended a message
\* while the loop was running.
C19_EmptyAfterDrain ==
    [][DrainCompletes => (QueueEmpty' /\ queuePosition' = 0)]_vars

\* the pid is the one of a background child that was not reaped yet
Unreaped(p) ==
    p \in Pids /\ procs[p].bg /\ procs[p].state \in {"forked", "running", "zombie"}

\* C20: every occupied slot of children holds the pid of a background child
\* that was not reaped yet, and exitShell sends SIGTERM to no other pid.
C20_NoStalePid ==
    /\ [](\A i \in DOMAIN children : children[i] # 0 => Unreaped(children[i]))
    /\ [][\A t \in signalled' \ signalled : Unreaped(t)]_vars

(***************************************************************************)
(* What the claims say about the mode and the kind of child at a launch.   *)
(***************************************************************************)
\* the step in which fork() gives a child that execCmd treats as a
\* background job: recorded in children, not waited for
LaunchesBackground ==
    /\ pc = "fork" /\ pc' = "record"
    /\ procs'[childPid'].bg

\* C21: no child is launched as a background job while foreground-only mode
\* is on, whenever SIGTSTP was delivered before the launch.
C21_NoBackgroundInFgMode ==
    [][LaunchesBackground => ~fgMode]_vars

\* the pids a "background pid .. is done" message was queued for
Notified == {pushed[i][2] : i \in 1..Len(pushed)}

\* C22: a message is queued only for a child launched in the background; a
\* foreground child is reaped by the waitpid of execCmd and never by
\* handleSIGCHLD, also once the handler is installed.
C22_OnlyBackgroundNotified ==
    /\ [](\A p \in Notified : procs[p].bg)
    /\ [][\A p \in Pids :
             (~procs[p].bg /\ procs[p].state = "zombie" /\ procs'[p].state = "reaped")
             => ~inHandler]_vars

====
